---- MODULE Spec2Model ----
(***************************************************************************)
(* A model of src/common/uri.ts: the URI codec of the GitHub Pull Requests *)
(* extension.  Text (URI paths, query strings, JSON) is a sequence of      *)
(* one-character strings, so that JSON.stringify and JSON.parse are        *)
(* modelled by what they do to the characters.                             *)
(***************************************************************************)
EXTENDS Integers, Sequences, FiniteSets, TLC

(***************************************************************************)
(* JavaScript values.                                                      *)
(***************************************************************************)
Undefined == [t |-> "undefined"]
Null == [t |-> "null"]
Bool(b) == [t |-> "bool", b |-> b]
Num(n) == [t |-> "num", n |-> n]
Str(s) == [t |-> "str", s |-> s]
\* An object is the sequence of its own properties, <<key, value>>, in
\* insertion order; an array the sequence of its items.
Obj(props) == [t |-> "obj", props |-> props]
Arr(items) == [t |-> "arr", items |-> items]

\* ToBoolean, as applied by `x ? a : b` and `if (x)`.
Truthy(v) ==
    CASE v.t = "undefined" -> FALSE
      [] v.t = "null" -> FALSE
      [] v.t = "bool" -> v.b
      [] v.t = "num" -> v.n # 0
      [] v.t = "str" -> v.s # <<>>
      [] OTHER -> TRUE

\* obj.key: the last property of that name, undefined when there is none
\* (and for every key of a primitive or an array read by name).
RECURSIVE GetFrom(_, _, _)
GetFrom(props, key, i) ==
    IF i = 0 THEN Undefined
    ELSE IF props[i][1] = key THEN props[i][2]
    ELSE GetFrom(props, key, i - 1)

Get(v, key) == IF v.t = "obj" THEN GetFrom(v.props, key, Len(v.props)) ELSE Undefined

\* The outcome of a call: a returned value or a thrown error.
Return(v) == [kind |-> "return", value |-> v]
Throw == [kind |-> "throw"]

(***************************************************************************)
(* JSON.stringify                                                          *)
(***************************************************************************)
DigitChars == <<"0", "1", "2", "3", "4", "5", "6", "7", "8", "9">>

RECURSIVE NatToChars(_)
NatToChars(n) ==
    IF n < 10 THEN <<DigitChars[n + 1]>>
    ELSE NatToChars(n \div 10) \o <<DigitChars[(n % 10) + 1]>>

NumToChars(n) == IF n < 0 THEN <<"-">> \o NatToChars(-n) ELSE NatToChars(n)

\* QuoteJSONString: the characters that JSON.stringify escapes, among the
\* characters of the model's alphabet.
QuoteChar(c) ==
    CASE c = "\"" -> <<"\\", "\"">>
      [] c = "\\" -> <<"\\", "\\">>
      [] c = "\n" -> <<"\\", "n">>
      [] c = "\t" -> <<"\\", "t">>
      [] OTHER -> <<c>>

RECURSIVE QuoteBody(_)
QuoteBody(s) == IF s = <<>> THEN <<>> ELSE QuoteChar(Head(s)) \o QuoteBody(Tail(s))

Quote(s) == <<"\"">> \o QuoteBody(s) \o <<"\"">>

RECURSIVE Stringify(_)
RECURSIVE StringifyProps(_, _)
RECURSIVE StringifyItems(_, _)

\* The properties whose value is undefined are left out.
StringifyProps(props, first) ==
    IF props = <<>> THEN <<>>
    ELSE IF Head(props)[2].t = "undefined" THEN StringifyProps(Tail(props), first)
    ELSE (IF first THEN <<>> ELSE <<",">>)
         \o Quote(Head(props)[1]) \o <<":">> \o Stringify(Head(props)[2])
         \o StringifyProps(Tail(props), FALSE)

\* An undefined item of an array is written as null.
StringifyItems(items, first) ==
    IF items = <<>> THEN <<>>
    ELSE (IF first THEN <<>> ELSE <<",">>)
         \o (IF Head(items).t = "undefined" THEN <<"n", "u", "l", "l">>
             ELSE Stringify(Head(items)))
         \o StringifyItems(Tail(items), FALSE)

Stringify(v) ==
    CASE v.t = "null" -> <<"n", "u", "l", "l">>
      [] v.t = "bool" -> IF v.b THEN <<"t", "r", "u", "e">> ELSE <<"f", "a", "l", "s", "e">>
      [] v.t = "num" -> NumToChars(v.n)
      [] v.t = "str" -> Quote(v.s)
      [] v.t = "obj" -> <<"{">> \o StringifyProps(v.props, TRUE) \o <<"}">>
      [] v.t = "arr" -> <<"[">> \o StringifyItems(v.items, TRUE) \o <<"]">>

(***************************************************************************)
(* JSON.parse: a recursive-descent parser of the JSON grammar.  A parse    *)
(* step yields [ok, val, next]: the value read and the position after it.  *)
(***************************************************************************)
Whitespace == {" ", "\n", "\t", "\r"}
Digits == {"0", "1", "2", "3", "4", "5", "6", "7", "8", "9"}
ControlChars == {"\n", "\t", "\r", "\f"}

NoParse == [ok |-> FALSE]
Parsed(v, next) == [ok |-> TRUE, val |-> v, next |-> next]

RECURSIVE SkipWs(_, _)
SkipWs(text, i) ==
    IF i <= Len(text) /\ text[i] \in Whitespace THEN SkipWs(text, i + 1) ELSE i

StartsWith(text, i, word) ==
    /\ i + Len(word) - 1 <= Len(text)
    /\ SubSeq(text, i, i + Len(word) - 1) = word

DigitValue(c) == CHOOSE d \in 0..9 : DigitChars[d + 1] = c

\* The single-character escapes of a JSON string (\b and \uXXXX are outside
\* the model's alphabet).
Unescape(c) ==
    CASE c = "n" -> "\n"
      [] c = "t" -> "\t"
      [] c = "r" -> "\r"
      [] c = "f" -> "\f"
      [] OTHER -> c

\* The characters of a string after its opening quote, up to the closing one.
RECURSIVE ParseStringBody(_, _, _)
ParseStringBody(text, i, acc) ==
    IF i > Len(text) THEN NoParse
    ELSE IF text[i] = "\"" THEN Parsed(Str(acc), i + 1)
    ELSE IF text[i] = "\\" THEN
        IF i + 1 <= Len(text) /\ text[i + 1] \in {"\"", "\\", "/", "n", "t", "r", "f"}
        THEN ParseStringBody(text, i + 2, Append(acc, Unescape(text[i + 1])))
        ELSE NoParse
    ELSE IF text[i] \in ControlChars THEN NoParse
    ELSE ParseStringBody(text, i + 1, Append(acc, text[i]))

RECURSIVE ParseDigits(_, _, _)
ParseDigits(text, i, acc) ==
    IF i <= Len(text) /\ text[i] \in Digits
    THEN ParseDigits(text, i + 1, 10 * acc + DigitValue(text[i]))
    ELSE Parsed(Num(acc), i)

\* An integer: an optional minus sign, then 0 or a digit string without a
\* leading zero (fractions and exponents are outside the model's alphabet).
ParseNumber(text, i) ==
    LET neg == i <= Len(text) /\ text[i] = "-"
        j == IF neg THEN i + 1 ELSE i
        r == IF j > Len(text) \/ text[j] \notin Digits THEN NoParse
             ELSE IF text[j] = "0" THEN Parsed(Num(0), j + 1)
             ELSE ParseDigits(text, j, 0)
    IN IF r.ok /\ neg THEN Parsed(Num(-r.val.n), r.next) ELSE r

RECURSIVE ParseValue(_, _)
RECURSIVE ParseElement(_, _)
RECURSIVE ParseMembers(_, _, _)
RECURSIVE ParseElements(_, _, _)

\* element: ws value ws
ParseElement(text, i) ==
    LET r == ParseValue(text, SkipWs(text, i))
    IN IF r.ok THEN Parsed(r.val, SkipWs(text, r.next)) ELSE NoParse

\* members: ws string ws ':' element, then ',' members or '}'
ParseMembers(text, i, acc) ==
    LET k == SkipWs(text, i)
        key == IF k <= Len(text) /\ text[k] = "\"" THEN ParseStringBody(text, k + 1, <<>>)
               ELSE NoParse
        c == IF key.ok THEN SkipWs(text, key.next) ELSE 0
        val == IF key.ok /\ c <= Len(text) /\ text[c] = ":" THEN ParseElement(text, c + 1)
               ELSE NoParse
    IN IF ~val.ok \/ val.next > Len(text) THEN NoParse
       ELSE IF text[val.next] = ","
            THEN ParseMembers(text, val.next + 1, Append(acc, <<key.val.s, val.val>>))
       ELSE IF text[val.next] = "}"
            THEN Parsed(Obj(Append(acc, <<key.val.s, val.val>>)), val.next + 1)
       ELSE NoParse

\* elements: element, then ',' elements or ']'
ParseElements(text, i, acc) ==
    LET val == ParseElement(text, i)
    IN IF ~val.ok \/ val.next > Len(text) THEN NoParse
       ELSE IF text[val.next] = "," THEN ParseElements(text, val.next + 1, Append(acc, val.val))
       ELSE IF text[val.next] = "]" THEN Parsed(Arr(Append(acc, val.val)), val.next + 1)
       ELSE NoParse

ParseValue(text, i) ==
    IF i > Len(text) THEN NoParse
    ELSE IF text[i] = "{" THEN
        LET k == SkipWs(text, i + 1)
        IN IF k <= Len(text) /\ text[k] = "}" THEN Parsed(Obj(<<>>), k + 1)
           ELSE ParseMembers(text, i + 1, <<>>)
    ELSE IF text[i] = "[" THEN
        LET k == SkipWs(text, i + 1)
        IN IF k <= Len(text) /\ text[k] = "]" THEN Parsed(Arr(<<>>), k + 1)
           ELSE ParseElements(text, i + 1, <<>>)
    ELSE IF text[i] = "\"" THEN ParseStringBody(text, i + 1, <<>>)
    ELSE IF StartsWith(text, i, <<"t", "r", "u", "e">>) THEN Parsed(Bool(TRUE), i + 4)
    ELSE IF StartsWith(text, i, <<"f", "a", "l", "s", "e">>) THEN Parsed(Bool(FALSE), i + 5)
    ELSE IF StartsWith(text, i, <<"n", "u", "l", "l">>) THEN Parsed(Null, i + 4)
    ELSE ParseNumber(text, i)

\* JSON.parse(text): the value of the whole text, or a SyntaxError.
JSONParse(text) ==
    LET r == ParseElement(text, 1)
    IN IF r.ok /\ r.next = Len(text) + 1 THEN Return(r.val) ELSE Throw

(***************************************************************************)
(* vscode.Uri: an immutable record of components; `with` replaces the      *)
(* components the change names and keeps the others.                       *)
(***************************************************************************)
Uri(scheme, authority, path, query) ==
    [scheme |-> scheme, authority |-> authority, path |-> path, query |-> query]

With(uri, change) ==
    [scheme |-> IF "scheme" \in DOMAIN change THEN change.scheme ELSE uri.scheme,
     authority |-> uri.authority,
     path |-> IF "path" \in DOMAIN change THEN change.path ELSE uri.path,
     query |-> IF "query" \in DOMAIN change THEN change.query ELSE uri.query]

\* The field names of the params records, as they are written in the query.
k_path == <<"p", "a", "t", "h">>
k_ref == <<"r", "e", "f">>
k_commit == <<"c", "o", "m", "m", "i", "t">>
k_base == <<"b", "a", "s", "e">>
k_isOutdated == <<"i", "s", "O", "u", "t", "d", "a", "t", "e", "d">>
k_rootPath == <<"r", "o", "o", "t", "P", "a", "t", "h">>
k_baseCommit == <<"b", "a", "s", "e", "C", "o", "m", "m", "i", "t">>
k_headCommit == <<"h", "e", "a", "d", "C", "o", "m", "m", "i", "t">>
k_isBase == <<"i", "s", "B", "a", "s", "e">>
k_fileName == <<"f", "i", "l", "e", "N", "a", "m", "e">>
k_prNumber == <<"p", "r", "N", "u", "m", "b", "e", "r">>
k_status == <<"s", "t", "a", "t", "u", "s">>
k_remoteName == <<"r", "e", "m", "o", "t", "e", "N", "a", "m", "e">>

GitSuffix == <<".", "g", "i", "t">>

(***************************************************************************)
(* The codec functions.                                                    *)
(***************************************************************************)
\* fromReviewUri with the try/catch of its siblings.
fromReviewUriSwallowing(query) ==
    LET r == JSONParse(query)
    IN IF r.kind = "throw" THEN Return(Undefined) ELSE r

fromReviewUri(query) == JSONParse(query)

fromPRUri(uri) ==
    LET r == JSONParse(uri.query)
    IN IF r.kind = "throw" THEN Return(Undefined) ELSE r

fromGitHubURI(uri) ==
    LET r == JSONParse(uri.query)
    IN IF r.kind = "throw" THEN Return(Undefined) ELSE r

EndsWith(text, word) ==
    /\ Len(word) <= Len(text)
    /\ SubSeq(text, Len(text) - Len(word) + 1, Len(text)) = word

\* toReviewUri echoing the document's path as the root path.
toReviewUriRootOfUri(uri, filePath, ref, commit, isOutdated, options, rootUri) ==
    LET params == Obj(<< <<k_path, IF Truthy(filePath) THEN filePath ELSE Str(uri.path)>>,
                         <<k_ref, ref>>,
                         <<k_commit, commit>>,
                         <<k_base, options.base>>,
                         <<k_isOutdated, isOutdated>>,
                         <<k_rootPath, Str(uri.path)>> >>)
        path == IF Truthy(options.replaceFileExtension) THEN uri.path \o GitSuffix
                ELSE uri.path
    IN With(uri, [scheme |-> "review", path |-> path, query |-> Stringify(params)])

\* toReviewUri leaving alone a path that already ends in .git.
toReviewUriKeepingGit(uri, filePath, ref, commit, isOutdated, options, rootUri) ==
    LET params == Obj(<< <<k_path, IF Truthy(filePath) THEN filePath ELSE Str(uri.path)>>,
                         <<k_ref, ref>>,
                         <<k_commit, commit>>,
                         <<k_base, options.base>>,
                         <<k_isOutdated, isOutdated>>,
                         <<k_rootPath, Str(rootUri.path)>> >>)
        path == IF Truthy(options.replaceFileExtension) /\ ~EndsWith(uri.path, GitSuffix)
                THEN uri.path \o GitSuffix
                ELSE uri.path
    IN With(uri, [scheme |-> "review", path |-> path, query |-> Stringify(params)])

toReviewUri(uri, filePath, ref, commit, isOutdated, options, rootUri) ==
    LET params == Obj(<< <<k_path, IF Truthy(filePath) THEN filePath ELSE Str(uri.path)>>,
                         <<k_ref, ref>>,
                         <<k_commit, commit>>,
                         <<k_base, options.base>>,
                         <<k_isOutdated, isOutdated>>,
                         <<k_rootPath, Str(rootUri.path)>> >>)
        path == IF Truthy(options.replaceFileExtension) THEN uri.path \o GitSuffix
                ELSE uri.path
    IN With(uri, [scheme |-> "review", path |-> path, query |-> Stringify(params)])

toResourceUri(uri, prNumber, fileName, status) ==
    LET params == Obj(<< <<k_prNumber, prNumber>>,
                         <<k_fileName, fileName>>,
                         <<k_status, status>> >>)
    IN With(uri, [scheme |-> "filechange", query |-> Stringify(params)])

fromFileChangeNodeUri(uri) ==
    IF uri.query # <<>>
    THEN LET r == JSONParse(uri.query)
         IN IF r.kind = "throw" THEN Return(Undefined) ELSE r
    ELSE Return(Undefined)

\* toPRUri with the two commits exchanged.
toPRUriCommitsExchanged(uri, pullRequestModel, baseCommit, headCommit, fileName, base, status) ==
    LET params == Obj(<< <<k_baseCommit, headCommit>>,
                         <<k_headCommit, baseCommit>>,
                         <<k_isBase, base>>,
                         <<k_fileName, fileName>>,
                         <<k_prNumber, pullRequestModel.number>>,
                         <<k_status, status>>,
                         <<k_remoteName, pullRequestModel.githubRepository.remote.remoteName>> >>)
        path == uri.path
    IN With(uri, [scheme |-> "pr", path |-> path, query |-> Stringify(params)])

toPRUri(uri, pullRequestModel, baseCommit, headCommit, fileName, base, status) ==
    LET params == Obj(<< <<k_baseCommit, baseCommit>>,
                         <<k_headCommit, headCommit>>,
                         <<k_isBase, base>>,
                         <<k_fileName, fileName>>,
                         <<k_prNumber, pullRequestModel.number>>,
                         <<k_status, status>>,
                         <<k_remoteName, pullRequestModel.githubRepository.remote.remoteName>> >>)
        path == uri.path
    IN With(uri, [scheme |-> "pr", path |-> path, query |-> Stringify(params)])

(***************************************************************************)
(* uri.fsPath and the path utilities, on the paths of the model: no UNC    *)
(* path, and a drive letter only where a file URI carries one.             *)
(***************************************************************************)
Platforms == {"posix", "win32"}

\* What the platform takes for a path separator.
Seps(platform) == IF platform = "win32" THEN {"/", "\\"} ELSE {"/"}

DriveLetters == {"c", "C", "d"}
LowerCase(c) == IF c = "C" THEN "c" ELSE c

HasDrive(path, at) ==
    /\ Len(path) >= at + 1
    /\ path[at] \in DriveLetters
    /\ path[at + 1] = ":"

ReplaceChar(text, old, new) ==
    [i \in 1..Len(text) |-> IF text[i] = old THEN new ELSE text[i]]

\* uri.fsPath: //authority/path for a file URI with an authority, the drive
\* letter in lower case and without its leading slash, else the path; with
\* backslashes on Windows.
FsPath(platform, uri) ==
    LET value ==
            IF uri.authority # <<>> /\ Len(uri.path) > 1 /\ uri.scheme = "file"
            THEN <<"/", "/">> \o uri.authority \o uri.path
            ELSE IF uri.path # <<>> /\ uri.path[1] = "/" /\ HasDrive(uri.path, 2)
            THEN <<LowerCase(uri.path[2])>> \o SubSeq(uri.path, 3, Len(uri.path))
            ELSE uri.path
    IN IF platform = "win32" THEN ReplaceChar(value, "/", "\\") ELSE value

Max(S) == CHOOSE m \in S : \A n \in S : n <= m

\* path.dirname: the path up to the separator before its last component.
Dirname(platform, path) ==
    LET seps == Seps(platform)
        ends == { p \in 2..Len(path) :
                    /\ path[p] \in seps
                    /\ \E q \in (p + 1)..Len(path) : path[q] \notin seps }
    IN IF path = <<>> THEN <<".">>
       ELSE IF ends = {} THEN (IF path[1] \in seps THEN <<path[1]>> ELSE <<".">>)
       ELSE IF path[1] \in seps /\ Max(ends) = 2 THEN SubSeq(path, 1, 2)
       ELSE SubSeq(path, 1, Max(ends) - 1)

\* path.basename: the last component, without trailing separators.
Basename(platform, path) ==
    LET seps == Seps(platform)
        names == { q \in 1..Len(path) : path[q] \notin seps }
        end == Max(names)
        before == { p \in 1..end : path[p] \in seps }
    IN IF names = {} THEN <<>>
       ELSE SubSeq(path, IF before = {} THEN 1 ELSE Max(before) + 1, end)

(***************************************************************************)
(* asImageDataURI: the parts that are pure.                                *)
(***************************************************************************)
ImageMimetypes ==
    {"image/png", "image/gif", "image/jpeg", "image/webp", "image/tiff", "image/bmp"}

\* Line 70: the destructuring of the parsed query.  It throws on null.
Destructure(query) ==
    LET r == JSONParse(query)
    IN IF r.kind = "throw" \/ r.value.t = "null" THEN Throw
       ELSE Return([commit |-> Get(r.value, k_commit),
                    baseCommit |-> Get(r.value, k_baseCommit),
                    headCommit |-> Get(r.value, k_headCommit),
                    isBase |-> Get(r.value, k_isBase),
                    path |-> Get(r.value, k_path)])

\* The ref selection with the two sides of the diff exchanged.
SelectRefExchanged(scheme, fields) ==
    IF scheme = "review" THEN fields.commit
    ELSE IF Truthy(fields.isBase) THEN fields.headCommit
    ELSE fields.baseCommit

\* Line 71.
SelectRef(scheme, fields) ==
    IF scheme = "review" THEN fields.commit
    ELSE IF Truthy(fields.isBase) THEN fields.baseCommit
    ELSE fields.headCommit

\* TemporaryState.write: the URI of the file written under the store.
TemporaryStateWrite(dir, name, contents) ==
    [t |-> "uri", store |-> "temp", dir |-> dir, name |-> name, contents |-> contents]

(***************************************************************************)
(* The values the callers pass, drawn from small sets.  The texts hold the *)
(* characters JSON has to escape (a quote, a backslash, a line feed) and a *)
(* path that already ends in .git.                                         *)
(***************************************************************************)
PathTxt == <<"/", "a", "/", "b", ".", "t", "x", "t">>
PathGit == <<"/", "m", ".", "g", "i", "t">>
PathQuote == <<"/", "q", "\"", "\\">>
PathRoot == <<"/", "r", "o", "o", "t">>
PathPng == <<"/", "d", "/", "e", ".", "p", "n", "g">>

UriInputs ==
    { Uri("file", <<>>, PathTxt, <<>>),
      Uri("file", <<>>, PathGit, <<"x", "=", "1">>),
      Uri("git", <<"h">>, PathQuote, <<>>) }

RootUriInputs == { Uri("file", <<>>, PathRoot, <<>>), Uri("file", <<>>, PathQuote, <<>>) }

FilePathInputs == { Undefined, Str(<<>>), Str(<<"s", "/", "c", ".", "t", "s">>) }
RefInputs == { Undefined, Str(<<"a", "b", "c", "1", "2", "3">>) }
CommitInputs == { Str(<<"d", "e", "f", "4", "5", "6">>), Str(<<"\"", ",", "\n">>) }
BoolInputs == { Bool(FALSE), Bool(TRUE) }

\* GitUriOptions: replaceFileExtension is optional, base is not.
OptionsInputs ==
    [replaceFileExtension : {Undefined, Bool(FALSE), Bool(TRUE)}, base : BoolInputs]

FileNameInputs == { Str(<<"R", ".", "m", "d">>), Str(<<"a", "\\", "\"", "}", ",">>) }
RemoteNameInputs == { Str(<<"o", "r", "i", "g", "i", "n">>), Str(<<>>) }

\* The largest pull request number of the model.
MaxPrNumber == 11
PrNumberInputs == { Num(n) : n \in 0..MaxPrNumber }

\* GitChangeType is a numeric enum (./file); three of its members.
StatusInputs == { Num(0), Num(3), Num(7) }

PullRequestModels ==
    { [number |-> n, githubRepository |-> [remote |-> [remoteName |-> r]]] :
        n \in PrNumberInputs, r \in RemoteNameInputs }

\* Queries of URIs this module did not make.  `class` records what the text
\* is: the empty string, text that is not JSON, or JSON that is not a params
\* record.
NotJsonQueries ==
    { <<"n", "o", "t", " ", "j", "s", "o", "n">>,
      <<"a", "=", "b">>,
      <<"{">>,
      <<"{", "\"", "a", "\"", ":", "}">>,
      <<"{", "\"", "a", "\"", ":", "1", "}", "x">>,
      <<"\"", "a", "b", "c">>,
      <<"{", "'", "a", "'", ":", "1", "}">>,
      <<"0", "1">> }

WrongShapeQueries ==
    { <<"{", "}">>,
      <<"{", "\"", "f", "o", "o", "\"", ":", "1", "}">>,
      <<"[", "]">>,
      <<"4", "2">>,
      <<"n", "u", "l", "l">>,
      <<"\"", "s", "\"">>,
      <<"t", "r", "u", "e">>,
      <<" ", "[", "1", ",", " ", "2", "]", " ">> }

ForeignQueries ==
    {[text |-> <<>>, class |-> "empty"]}
    \cup {[text |-> q, class |-> "notjson"] : q \in NotJsonQueries}
    \cup {[text |-> q, class |-> "wrongshape"] : q \in WrongShapeQueries}

VARIABLES
    held,       \* the URI the host holds, what made it and from which arguments
    decoded,    \* the last decoding of the held URI: the function and its outcome
    image,      \* asImageDataURI's argument, and the platform it runs on
    pc,         \* where the asImageDataURI invocation stands
    fields,     \* its locals: the fields destructured from the query, and ref
    calls,      \* the collaborator calls it issued and their completions, in order
    promise,    \* the promise it returned to its caller
    resolved,   \* the last resolvePath call: platform, arguments and result
    listeners,  \* the relay's subscriber list
    received,   \* what each listener was called with, in order
    fired,      \* the URIs passed to handleUri, in order
    audience    \* who was subscribed at each handleUri call

codecVars == <<held, decoded>>
imageVars == <<image, pc, fields, calls, promise>>
pathVars == <<resolved>>
relayVars == <<listeners, received, fired, audience>>
vars == <<held, decoded, image, pc, fields, calls, promise, resolved,
          listeners, received, fired, audience>>

NoUri == [by |-> "none"]
NotDecoded == [fn |-> "none"]
Pending == [state |-> "pending"]
Fulfilled(v) == [state |-> "fulfilled", value |-> v]
Rejected == [state |-> "rejected"]

\* The most listeners and handleUri calls of the model.
MaxListeners == 2
MaxEvents == 3
Listeners == 1..MaxListeners

Init ==
    /\ held = NoUri
    /\ decoded = NotDecoded
    /\ image = NoUri
    /\ pc = "idle"
    /\ fields = <<>>
    /\ calls = <<>>
    /\ promise = [state |-> "none"]
    /\ resolved = [done |-> FALSE]
    /\ listeners = {}
    /\ received = [l \in Listeners |-> <<>>]
    /\ fired = <<>>
    /\ audience = <<>>

(***************************************************************************)
(* The codec's operations: a caller makes a URI, the host holds it, and a  *)
(* content provider decodes the held URI's query, any number of times.     *)
(* The functions are pure and share no state, so a behaviour follows one   *)
(* URI; the behaviours together cover every URI.                           *)
(***************************************************************************)
ToReviewUri ==
    /\ held = NoUri
    /\ \E uri \in UriInputs, filePath \in FilePathInputs, ref \in RefInputs,
       commit \in CommitInputs, isOutdated \in BoolInputs,
       options \in OptionsInputs, rootUri \in RootUriInputs :
        /\ held' = [by |-> "toReviewUri",
                    uri |-> toReviewUri(uri, filePath, ref, commit, isOutdated, options, rootUri),
                    args |-> [uri |-> uri, filePath |-> filePath, ref |-> ref,
                              commit |-> commit, isOutdated |-> isOutdated,
                              options |-> options, rootUri |-> rootUri]]
        /\ decoded' = NotDecoded
        /\ UNCHANGED <<imageVars, pathVars, relayVars>>

ToPRUri ==
    /\ held = NoUri
    /\ \E uri \in UriInputs, pullRequestModel \in PullRequestModels,
       baseCommit \in CommitInputs, headCommit \in CommitInputs,
       fileName \in FileNameInputs, base \in BoolInputs, status \in StatusInputs :
        /\ held' = [by |-> "toPRUri",
                    uri |-> toPRUri(uri, pullRequestModel, baseCommit, headCommit,
                                    fileName, base, status),
                    args |-> [uri |-> uri, pullRequestModel |-> pullRequestModel,
                              baseCommit |-> baseCommit, headCommit |-> headCommit,
                              fileName |-> fileName, base |-> base, status |-> status]]
        /\ decoded' = NotDecoded
        /\ UNCHANGED <<imageVars, pathVars, relayVars>>

ToResourceUri ==
    /\ held = NoUri
    /\ \E uri \in UriInputs, prNumber \in PrNumberInputs,
       fileName \in FileNameInputs, status \in StatusInputs :
        /\ held' = [by |-> "toResourceUri",
                    uri |-> toResourceUri(uri, prNumber, fileName, status),
                    args |-> [uri |-> uri, prNumber |-> prNumber,
                              fileName |-> fileName, status |-> status]]
        /\ decoded' = NotDecoded
        /\ UNCHANGED <<imageVars, pathVars, relayVars>>

\* The host hands over a URI that this module did not make.
ForeignUri ==
    /\ held = NoUri
    /\ \E q \in ForeignQueries, scheme \in {"review", "pr", "filechange", "https"} :
        /\ held' = [by |-> "foreign",
                    uri |-> Uri(scheme, <<>>, PathTxt, q.text),
                    args |-> [class |-> q.class]]
        /\ decoded' = NotDecoded
        /\ UNCHANGED <<imageVars, pathVars, relayVars>>

FromReviewUri ==
    /\ held.by # "none"
    /\ decoded' = [fn |-> "fromReviewUri", outcome |-> fromReviewUri(held.uri.query)]
    /\ UNCHANGED <<held, imageVars, pathVars, relayVars>>

FromPRUri ==
    /\ held.by # "none"
    /\ decoded' = [fn |-> "fromPRUri", outcome |-> fromPRUri(held.uri)]
    /\ UNCHANGED <<held, imageVars, pathVars, relayVars>>

FromGitHubURI ==
    /\ held.by # "none"
    /\ decoded' = [fn |-> "fromGitHubURI", outcome |-> fromGitHubURI(held.uri)]
    /\ UNCHANGED <<held, imageVars, pathVars, relayVars>>

FromFileChangeNodeUri ==
    /\ held.by # "none"
    /\ decoded' = [fn |-> "fromFileChangeNodeUri", outcome |-> fromFileChangeNodeUri(held.uri)]
    /\ UNCHANGED <<held, imageVars, pathVars, relayVars>>

NextCodec ==
    \/ ToReviewUri
    \/ ToPRUri
    \/ ToResourceUri
    \/ ForeignUri
    \/ FromReviewUri
    \/ FromPRUri
    \/ FromGitHubURI
    \/ FromFileChangeNodeUri

SpecCodec == Init /\ [][NextCodec]_vars
(***************************************************************************)
(* The claims about the codec.                                             *)
(***************************************************************************)
Keys(v) == { v.props[i][1] : i \in 1..Len(v.props) }

\* C1: fromReviewUri applied to the query of the URI toReviewUri returned
\* recovers every field: path (filePath when it is a non-empty string, else
\* the input URI's path), ref, commit, base = options.base, isOutdated and
\* rootPath = rootUri.path; the URI has scheme 'review'.
C1_ReviewRoundTrip ==
    (held.by = "toReviewUri" /\ decoded.fn = "fromReviewUri") =>
        LET a == held.args
            o == decoded.outcome
            provided == a.filePath.t = "str" /\ a.filePath.s # <<>>
        IN /\ held.uri.scheme = "review"
           /\ o.kind = "return"
           /\ o.value.t = "obj"
           /\ Keys(o.value) \subseteq
                {k_path, k_ref, k_commit, k_base, k_isOutdated, k_rootPath}
           /\ Get(o.value, k_path) = (IF provided THEN a.filePath ELSE Str(a.uri.path))
           /\ Get(o.value, k_ref) = a.ref
           /\ Get(o.value, k_commit) = a.commit
           /\ Get(o.value, k_base) = a.options.base
           /\ Get(o.value, k_isOutdated) = a.isOutdated
           /\ Get(o.value, k_rootPath) = Str(a.rootUri.path)

\* A round trip of a path that needs escaping, with ref left out and the
\* file path falling back to the URI's path.
C1_Witness ==
    /\ held.by = "toReviewUri"
    /\ decoded.fn = "fromReviewUri"
    /\ held.args.uri.path = PathQuote
    /\ held.args.filePath = Undefined
    /\ held.args.ref = Undefined
    /\ held.args.rootUri.path = PathRoot
    /\ Get(decoded.outcome.value, k_path) = Str(PathQuote)

\* C2: fromPRUri, fromGitHubURI and fromFileChangeNodeUri return "no value"
\* for every query that is empty, not JSON, or JSON of the wrong shape.
C2_NoValueOnForeignQuery ==
    (/\ held.by = "foreign"
     /\ decoded.fn \in {"fromPRUri", "fromGitHubURI", "fromFileChangeNodeUri"})
        => decoded.outcome = Return(Undefined)

\* C5: fromPRUri recovers exactly the record toPRUri packed, and
\* fromFileChangeNodeUri the record toResourceUri packed; the URIs have
\* scheme 'pr' and 'filechange'.
C5_ParamsRoundTrip ==
    /\ (held.by = "toPRUri" /\ decoded.fn = "fromPRUri") =>
        LET a == held.args
            o == decoded.outcome
        IN /\ held.uri.scheme = "pr"
           /\ o.kind = "return"
           /\ o.value.t = "obj"
           /\ Keys(o.value) = {k_baseCommit, k_headCommit, k_isBase, k_fileName,
                               k_prNumber, k_status, k_remoteName}
           /\ Len(o.value.props) = 7
           /\ Get(o.value, k_baseCommit) = a.baseCommit
           /\ Get(o.value, k_headCommit) = a.headCommit
           /\ Get(o.value, k_isBase) = a.base
           /\ Get(o.value, k_fileName) = a.fileName
           /\ Get(o.value, k_prNumber) = a.pullRequestModel.number
           /\ Get(o.value, k_status) = a.status
           /\ Get(o.value, k_remoteName) =
                a.pullRequestModel.githubRepository.remote.remoteName
    /\ (held.by = "toResourceUri" /\ decoded.fn = "fromFileChangeNodeUri") =>
        LET a == held.args
            o == decoded.outcome
        IN /\ held.uri.scheme = "filechange"
           /\ o.kind = "return"
           /\ o.value.t = "obj"
           /\ Keys(o.value) = {k_prNumber, k_fileName, k_status}
           /\ Len(o.value.props) = 3
           /\ Get(o.value, k_prNumber) = a.prNumber
           /\ Get(o.value, k_fileName) = a.fileName
           /\ Get(o.value, k_status) = a.status

\* A round trip of different commits, a file name that needs escaping, a
\* two-digit number and an empty remote name.
C5_Witness ==
    /\ held.by = "toPRUri"
    /\ decoded.fn = "fromPRUri"
    /\ held.args.baseCommit # held.args.headCommit
    /\ held.args.fileName = Str(<<"a", "\\", "\"", "}", ",">>)
    /\ held.args.pullRequestModel.number = Num(MaxPrNumber)
    /\ Get(decoded.outcome.value, k_remoteName) = Str(<<>>)
    /\ Get(decoded.outcome.value, k_prNumber) = Num(MaxPrNumber)

\* C6: toPRUri returns the input path unchanged; toReviewUri returns the
\* input path with exactly one '.git' appended when replaceFileExtension is
\* set, whatever extension the path has, and unchanged when it is unset.
C6_PathSuffix ==
    /\ held.by = "toPRUri" => held.uri.path = held.args.uri.path
    /\ held.by = "toReviewUri" =>
        held.uri.path =
            (IF held.args.options.replaceFileExtension = Bool(TRUE)
             THEN held.args.uri.path \o <<".", "g", "i", "t">>
             ELSE held.args.uri.path)

\* A path that already ends in .git gets the suffix once more.
C6_Witness ==
    /\ held.by = "toReviewUri"
    /\ held.args.options.replaceFileExtension = Bool(TRUE)
    /\ held.args.uri.path = PathGit
    /\ held.uri.path = <<"/", "m", ".", "g", "i", "t", ".", "g", "i", "t">>

\* C7: on a query that is not valid JSON, fromReviewUri throws, while
\* fromPRUri, fromGitHubURI and fromFileChangeNodeUri return "no value".
C7_ReviewThrows ==
    (held.by = "foreign" /\ held.args.class \in {"empty", "notjson"}) =>
        /\ decoded.fn = "fromReviewUri" => decoded.outcome = Throw
        /\ decoded.fn \in {"fromPRUri", "fromGitHubURI", "fromFileChangeNodeUri"}
            => decoded.outcome = Return(Undefined)

C7_Witness ==
    /\ held.by = "foreign"
    /\ held.uri.query = <<"n", "o", "t", " ", "j", "s", "o", "n">>
    /\ decoded.fn = "fromReviewUri"
    /\ decoded.outcome.kind = "throw"
(***************************************************************************)
(* asImageDataURI.  The invocation runs to its first await in one step,    *)
(* and from each completion of a collaborator to the next await or to its  *)
(* return in one step.  Every collaborator may fail.                       *)
(***************************************************************************)
CommitA == Str(<<"d", "e", "f", "4", "5", "6">>)
CommitB == Str(<<"b", "a", "5", "e">>)
CommitC == Str(<<"4", "e", "a", "d">>)
ImageDocument == Uri("file", <<>>, PathPng, <<>>)
ImageRoot == Uri("file", <<>>, PathRoot, <<>>)
ImagePullRequest ==
    [number |-> Num(7),
     githubRepository |-> [remote |-> [remoteName |-> Str(<<"o", "r", "i", "g", "i", "n">>)]]]

\* What asImageDataURI is called with: a URI made by toReviewUri, a URI
\* made by toPRUri, or a URI whose query is something else.
ImageUriInputs ==
    { [by |-> "toReviewUri",
       args |-> [filePath |-> filePath, commit |-> commit, base |-> base]] :
        filePath \in {Undefined, Str(<<"i", "/", "e", ".", "p", "n", "g">>)},
        commit \in {CommitA, CommitB}, base \in BoolInputs }
    \cup
    { [by |-> "toPRUri",
       args |-> [baseCommit |-> CommitB, headCommit |-> CommitC, base |-> base]] :
        base \in BoolInputs }
    \cup
    { [by |-> "foreign", args |-> [scheme |-> scheme, query |-> q]] :
        scheme \in {"review", "pr"},
        q \in { <<"n", "o", "t", " ", "j", "s", "o", "n">>,
                <<"n", "u", "l", "l">>,
                <<"4", "2">> } }

ImageUri(input) ==
    CASE input.by = "toReviewUri" ->
            toReviewUri(ImageDocument, input.args.filePath, Str(<<"r">>), input.args.commit,
                        Bool(FALSE),
                        [replaceFileExtension |-> Undefined, base |-> input.args.base],
                        ImageRoot)
      [] input.by = "toPRUri" ->
            toPRUri(ImageDocument, ImagePullRequest, input.args.baseCommit,
                    input.args.headCommit, Str(<<"e", ".", "p", "n", "g">>),
                    input.args.base, Num(3))
      [] OTHER -> Uri(input.args.scheme, <<>>, PathPng, input.args.query)

MimetypeInputs == ImageMimetypes \cup {"text/plain", "application/octet-stream"}
ObjectInputs == {"0a1b"}
ContentsInputs == {<<137, 80>>}

Call(op, args) == [phase |-> "call", op |-> op, args |-> args]
Done(op, ok, value) == [phase |-> "done", op |-> op, ok |-> ok, value |-> value]

\* Lines 69-72: the call, up to `await repository.getObjectDetails(...)`.
Begin(arg, platform, uri, d) ==
    /\ image' = [by |-> arg.by, uri |-> uri, args |-> arg.args, platform |-> platform]
    /\ IF d.kind = "throw"
       THEN /\ pc' = "settled"
            /\ promise' = Fulfilled(Undefined)
            /\ UNCHANGED <<fields, calls>>
       ELSE /\ pc' = "getObjectDetails"
            /\ promise' = Pending
            /\ fields' = [ref |-> SelectRef(uri.scheme, d.value), path |-> d.value.path]
            /\ calls' = <<Call("getObjectDetails",
                               [ref |-> SelectRef(uri.scheme, d.value),
                                path |-> FsPath(platform, uri)])>>

Invoke(arg, platform, uri) == Begin(arg, platform, uri, Destructure(uri.query))

AsImageDataURI ==
    /\ pc = "idle"
    /\ \E arg \in ImageUriInputs, platform \in Platforms : Invoke(arg, platform, ImageUri(arg))
    /\ UNCHANGED <<codecVars, pathVars, relayVars>>

\* Lines 72-73: getObjectDetails settles; on success detectObjectType is called.
GetObjectDetailsDone ==
    /\ pc = "getObjectDetails"
    /\ \E ok \in BOOLEAN, object \in ObjectInputs :
        IF ok
        THEN /\ calls' = calls \o <<Done("getObjectDetails", TRUE, object),
                                    Call("detectObjectType", [object |-> object])>>
             /\ pc' = "detectObjectType"
             /\ UNCHANGED promise
        ELSE /\ calls' = Append(calls, Done("getObjectDetails", FALSE, object))
             /\ pc' = "settled"
             /\ promise' = Fulfilled(Undefined)
    /\ UNCHANGED <<image, fields, codecVars, pathVars, relayVars>>

\* Lines 73-80: detectObjectType settles; plain text and every type that is
\* no image return nothing, an image type has its bytes fetched.
DetectObjectTypeDone ==
    /\ pc = "detectObjectType"
    /\ \E ok \in BOOLEAN, mimetype \in MimetypeInputs :
        IF ~ok
        THEN /\ calls' = Append(calls, Done("detectObjectType", FALSE, mimetype))
             /\ pc' = "settled"
             /\ promise' = Fulfilled(Undefined)
        ELSE IF mimetype = "text/plain"
        THEN /\ calls' = Append(calls, Done("detectObjectType", TRUE, mimetype))
             /\ pc' = "settled"
             /\ promise' = Fulfilled(Undefined)
        ELSE IF mimetype \in ImageMimetypes
        THEN /\ calls' = calls \o <<Done("detectObjectType", TRUE, mimetype),
                                    Call("buffer", [ref |-> fields.ref,
                                                    path |-> FsPath(image.platform, image.uri)])>>
             /\ pc' = "buffer"
             /\ UNCHANGED promise
        ELSE /\ calls' = Append(calls, Done("detectObjectType", TRUE, mimetype))
             /\ pc' = "settled"
             /\ promise' = Fulfilled(Undefined)
    /\ UNCHANGED <<image, fields, codecVars, pathVars, relayVars>>

\* Lines 80-81: buffer settles; on success the directory and the name are
\* taken from the query's path (a TypeError when it is no string) and
\* TemporaryState.write is called.  What write returns is returned as it
\* is, not awaited: an error write throws is caught here, the promise it
\* returns settles the caller's promise.
BufferDone ==
    /\ pc = "buffer"
    /\ \E ok \in BOOLEAN, contents \in ContentsInputs, writeThrows \in BOOLEAN :
        IF ~ok
        THEN /\ ~writeThrows
             /\ calls' = Append(calls, Done("buffer", FALSE, contents))
             /\ pc' = "settled"
             /\ promise' = Fulfilled(Undefined)
        ELSE IF fields.path.t # "str"
        THEN /\ ~writeThrows
             /\ calls' = Append(calls, Done("buffer", TRUE, contents))
             /\ pc' = "settled"
             /\ promise' = Fulfilled(Undefined)
        ELSE LET write == Call("write", [dir |-> Dirname(image.platform, fields.path.s),
                                         name |-> Basename(image.platform, fields.path.s),
                                         contents |-> contents])
             IN IF writeThrows
                THEN /\ calls' = calls \o <<Done("buffer", TRUE, contents), write,
                                            Done("write", FALSE, Undefined)>>
                     /\ pc' = "settled"
                     /\ promise' = Fulfilled(Undefined)
                ELSE /\ calls' = calls \o <<Done("buffer", TRUE, contents), write>>
                     /\ pc' = "write"
                     /\ UNCHANGED promise
    /\ UNCHANGED <<image, fields, codecVars, pathVars, relayVars>>

\* The promise TemporaryState.write returned settles, and with it the
\* promise asImageDataURI returned.
WriteDone ==
    /\ pc = "write"
    /\ \E ok \in BOOLEAN :
        LET w == calls[Len(calls)].args
            written == TemporaryStateWrite(w.dir, w.name, w.contents)
        IN /\ calls' = Append(calls, Done("write", ok, IF ok THEN written ELSE Undefined))
           /\ promise' = IF ok THEN Fulfilled(written) ELSE Rejected
    /\ pc' = "settled"
    /\ UNCHANGED <<image, fields, codecVars, pathVars, relayVars>>

NextImage ==
    \/ AsImageDataURI
    \/ GetObjectDetailsDone
    \/ DetectObjectTypeDone
    \/ BufferDone
    \/ WriteDone

SpecImage == Init /\ [][NextImage]_vars

(***************************************************************************)
(* The claims about asImageDataURI.                                        *)
(***************************************************************************)
NoCollaboratorFailed == \A i \in 1..Len(calls) : calls[i].phase = "done" => calls[i].ok

\* C3: whichever stage fails, the promise asImageDataURI returned never
\* rejects.
C3_NeverRejects == promise.state # "rejected"

\* C4: for a URI made by toReviewUri or toPRUri and no collaborator failing,
\* the result is "no value" when the type is text/plain and the URI the
\* temporary-state write produced when the type is an image type.
C4_ImageYieldsWrittenUri ==
    (/\ pc = "settled"
     /\ image.by \in {"toReviewUri", "toPRUri"}
     /\ NoCollaboratorFailed
     /\ Len(calls) >= 4) =>
        /\ calls[4].value = "text/plain" => promise = Fulfilled(Undefined)
        /\ calls[4].value \in ImageMimetypes =>
            /\ Len(calls) = 8
            /\ promise = Fulfilled(calls[8].value)
            /\ calls[8].value.t = "uri"

CallOrder ==
    << <<"call", "getObjectDetails">>, <<"done", "getObjectDetails">>,
       <<"call", "detectObjectType">>, <<"done", "detectObjectType">>,
       <<"call", "buffer">>, <<"done", "buffer">>,
       <<"call", "write">>, <<"done", "write">> >>

\* C10: the collaborator calls are issued one after the other's completion,
\* in the order getObjectDetails, detectObjectType, buffer, write; buffer
\* and write only for an image type and after every earlier call succeeded;
\* buffer with the ref and path getObjectDetails got, the ref being the
\* query's commit for a 'review' URI, else baseCommit if isBase, else
\* headCommit; for any other type nothing more is issued and the result is
\* "no value".
C10_SequentialCalls ==
    /\ Len(calls) <= 8
    /\ \A i \in 1..Len(calls) : <<calls[i].phase, calls[i].op>> = CallOrder[i]
    /\ \A i \in 1..Len(calls) :
        (calls[i].phase = "call" /\ i > 1) => calls[i - 1].ok
    /\ Len(calls) >= 5 => calls[4].value \in ImageMimetypes
    /\ Len(calls) >= 5 => calls[5].args = calls[1].args
    /\ (Len(calls) >= 1 /\ image.by = "toReviewUri") =>
            calls[1].args.ref = image.args.commit
    /\ (Len(calls) >= 1 /\ image.by = "toPRUri") =>
            calls[1].args.ref = (IF image.args.base = Bool(TRUE) THEN image.args.baseCommit
                                 ELSE image.args.headCommit)
    /\ (Len(calls) >= 4 /\ calls[4].ok /\ calls[4].value \notin ImageMimetypes) =>
            /\ Len(calls) = 4
            /\ pc = "settled"
            /\ promise = Fulfilled(Undefined)

\* All four calls of one invocation on a review URI, and the write settled.
C10_Witness ==
    /\ image.by = "toReviewUri"
    /\ Len(calls) = 8
    /\ calls[4].value = "image/webp"
    /\ calls[5].args.ref = CommitB
    /\ calls[7].args.dir = <<"/", "d">>
    /\ calls[7].args.name = <<"e", ".", "p", "n", "g">>
    /\ calls[8].ok
    /\ promise = Fulfilled(calls[8].value)
(***************************************************************************)
(* resolvePath.  path.posix.resolve and path.win32.resolve on the paths of *)
(* the model: segments are split off at the separators, '.' and '..' are   *)
(* resolved, and the rest is joined under the root.                        *)
(***************************************************************************)
\* The working directory of the extension host, on either platform.
PosixCwd == <<"/", "w">>
Win32Cwd == <<"c", ":", "\\", "w">>

\* The segments of a path: the non-empty runs between separators.
RECURSIVE Split(_, _, _, _, _)
Split(path, seps, i, current, segments) ==
    IF i > Len(path)
    THEN (IF current = <<>> THEN segments ELSE Append(segments, current))
    ELSE IF path[i] \in seps
    THEN Split(path, seps, i + 1, <<>>,
               IF current = <<>> THEN segments ELSE Append(segments, current))
    ELSE Split(path, seps, i + 1, Append(current, path[i]), segments)

\* normalizeString of an absolute path: '.' is dropped, '..' takes the
\* segment before it away and is dropped at the root.
RECURSIVE NormalizeSegments(_, _)
NormalizeSegments(segments, kept) ==
    IF segments = <<>> THEN kept
    ELSE IF Head(segments) = <<".">> THEN NormalizeSegments(Tail(segments), kept)
    ELSE IF Head(segments) = <<".", ".">>
    THEN NormalizeSegments(Tail(segments),
                           IF kept = <<>> THEN kept ELSE SubSeq(kept, 1, Len(kept) - 1))
    ELSE NormalizeSegments(Tail(segments), Append(kept, Head(segments)))

RECURSIVE Join(_, _)
Join(segments, sep) ==
    IF segments = <<>> THEN <<>>
    ELSE IF Len(segments) = 1 THEN Head(segments)
    ELSE Head(segments) \o <<sep>> \o Join(Tail(segments), sep)

IsPosixAbsolute(path) == path # <<>> /\ path[1] = "/"

\* path.posix.resolve(from, to): the arguments are taken from the right
\* until one is absolute, the working directory last.
PosixResolve(from, to) ==
    <<"/">> \o Join(NormalizeSegments(
                        Split(IF IsPosixAbsolute(to) THEN to
                              ELSE IF IsPosixAbsolute(from) THEN from \o <<"/">> \o to
                              ELSE PosixCwd \o <<"/">> \o from \o <<"/">> \o to,
                              {"/"}, 1, <<>>, <<>>),
                        <<>>),
                    "/")

\* The device of a Windows path (a drive, UNC paths being left out), what
\* follows it, and whether that is rooted.
Device(path) == IF HasDrive(path, 1) THEN SubSeq(path, 1, 2) ELSE <<>>
AfterDevice(path) == IF HasDrive(path, 1) THEN SubSeq(path, 3, Len(path)) ELSE path
IsRooted(path) == AfterDevice(path) # <<>> /\ AfterDevice(path)[1] \in {"/", "\\"}
SameDevice(a, b) == LowerCase(a[1]) = LowerCase(b[1])

\* One turn of the loop of path.win32.resolve, on the next argument from
\* the right.
Win32Take(r, path) ==
    IF (r.absolute /\ r.device # <<>>) \/ path = <<>> THEN r
    ELSE IF Device(path) # <<>> /\ r.device # <<>> /\ ~SameDevice(Device(path), r.device)
    THEN r
    ELSE [device |-> IF r.device = <<>> THEN Device(path) ELSE r.device,
          tail |-> IF r.absolute THEN r.tail ELSE AfterDevice(path) \o <<"\\">> \o r.tail,
          absolute |-> r.absolute \/ IsRooted(path)]

\* The turn that follows the arguments: the working directory, or the root
\* of the device found when the working directory is on another one.
Win32TakeCwd(r) ==
    Win32Take(r, IF r.device = <<>> \/ SameDevice(Device(Win32Cwd), r.device)
                 THEN Win32Cwd
                 ELSE r.device \o <<"\\">>)

Win32Finish(r) ==
    r.device \o <<"\\">>
    \o Join(NormalizeSegments(Split(r.tail, {"/", "\\"}, 1, <<>>, <<>>), <<>>), "\\")

Win32Resolve(from, to) ==
    Win32Finish(
        Win32TakeCwd(
            Win32Take(Win32Take([device |-> <<>>, tail |-> <<>>, absolute |-> FALSE], to),
                      from)))

\* path.resolve: the resolution of the platform the extension host runs on.
NativeResolve(platform, from, to) ==
    IF platform = "win32" THEN Win32Resolve(from, to) ELSE PosixResolve(from, to)

\* resolvePath resolving every URI natively.
resolvePathNatively(platform, from, to) == NativeResolve(platform, from.path, to)

resolvePath(platform, from, to) ==
    IF from.scheme = "file"
    THEN NativeResolve(platform, FsPath(platform, from), to)
    ELSE PosixResolve(from.path, to)

PathAB == <<"/", "a", "/", "b">>
PathDrive == <<"/", "C", ":", "/", "a">>
FromInputs ==
    { Uri("file", <<>>, PathAB, <<>>),
      Uri("file", <<>>, PathDrive, <<>>),
      Uri("file", <<>>, <<"/">>, <<>>),
      Uri("vscode-vfs", <<"g", "h">>, PathAB, <<>>),
      Uri("review", <<>>, PathTxt, <<"{", "}">>),
      Uri("pr", <<>>, PathDrive, <<>>) }

ToInputs ==
    { <<"x">>,
      <<>>,
      <<".", ".", "/", "y">>,
      <<".", "/", "z", "/", "w">>,
      <<"/", "a", "b", "s">>,
      <<"s", "\\", "t">>,
      <<"d", ":", "/", "q">>,
      <<".", ".">>,
      <<"a", "/", ".", ".", "/", ".", ".", "/", ".", ".", "/", "b">> }

ResolvePath ==
    /\ \E platform \in Platforms, from \in FromInputs, to \in ToInputs :
        resolved' = [done |-> TRUE, platform |-> platform, from |-> from, to |-> to,
                     result |-> resolvePath(platform, from, to)]
    /\ UNCHANGED <<codecVars, imageVars, relayVars>>

NextPath == ResolvePath

SpecPath == Init /\ [][NextPath]_vars

\* C8: resolvePath picks its mode by from.scheme alone: for 'file' the
\* result is the native resolution of `to` against from's filesystem path;
\* for every other scheme it is the POSIX resolution against from.path,
\* '/'-separated and the same on either platform.
C8_ResolveByScheme ==
    resolved.done =>
        /\ resolved.from.scheme = "file" =>
            resolved.result =
                NativeResolve(resolved.platform, FsPath(resolved.platform, resolved.from),
                              resolved.to)
        /\ resolved.from.scheme # "file" =>
            /\ resolved.result = PosixResolve(resolved.from.path, resolved.to)
            /\ resolved.result[1] = "/"
            /\ \A other \in Platforms :
                resolvePath(other, resolved.from, resolved.to) = resolved.result
        /\ (/\ resolved.platform = "win32"
            /\ resolved.from = Uri("file", <<>>, PathDrive, <<>>)
            /\ resolved.to = <<".", ".", "/", "y">>)
                => resolved.result = <<"c", ":", "\\", "y">>
        /\ (/\ resolved.platform = "posix"
            /\ resolved.from = Uri("file", <<>>, PathAB, <<>>)
            /\ resolved.to = <<".", "/", "z", "/", "w">>)
                => resolved.result = <<"/", "a", "/", "b", "/", "z", "/", "w">>

\* On Windows, a virtual URI is resolved with forward slashes, a backslash
\* in `to` being no separator.
C8_Witness ==
    /\ resolved.done
    /\ resolved.platform = "win32"
    /\ resolved.from.scheme = "vscode-vfs"
    /\ resolved.to = <<"s", "\\", "t">>
    /\ resolved.result = <<"/", "a", "/", "b", "/", "s", "\\", "t">>
(***************************************************************************)
(* The URI event relay: UriEventHandler is an event emitter whose          *)
(* handleUri fires the URI it is given.  A listener is one subscription to *)
(* the emitter's event; disposing of the subscription takes it off the     *)
(* list.                                                                   *)
(***************************************************************************)
RelayUris ==
    { Uri("vscode", <<"g", "h">>, <<"/", "o", "p", "e", "n">>, <<"n", "=", "1">>),
      Uri("vscode", <<"g", "h">>, <<"/", "d", "i", "d">>, <<>>) }

\* fire calling every listener that was ever subscribed.
fireToEveryone(subscribed, log, uri) ==
    [l \in Listeners |-> Append(log[l], uri)]

\* this.fire(uri): every subscribed listener is called once, with the URI.
fire(subscribed, log, uri) ==
    [l \in Listeners |-> IF l \in subscribed THEN Append(log[l], uri) ELSE log[l]]

Subscribe ==
    /\ \E l \in Listeners \ listeners : listeners' = listeners \cup {l}
    /\ UNCHANGED <<received, fired, audience, codecVars, imageVars, pathVars>>

Unsubscribe ==
    /\ \E l \in listeners : listeners' = listeners \ {l}
    /\ UNCHANGED <<received, fired, audience, codecVars, imageVars, pathVars>>

HandleUri ==
    /\ Len(fired) < MaxEvents
    /\ \E uri \in RelayUris :
        /\ received' = fire(listeners, received, uri)
        /\ fired' = Append(fired, uri)
    /\ audience' = Append(audience, listeners)
    /\ UNCHANGED <<listeners, codecVars, imageVars, pathVars>>

NextRelay ==
    \/ Subscribe
    \/ Unsubscribe
    \/ HandleUri

SpecRelay == Init /\ [][NextRelay]_vars

\* The URIs handled while listener l was subscribed, in order.
RECURSIVE Heard(_, _)
Heard(l, n) ==
    IF n = 0 THEN <<>>
    ELSE IF l \in audience[n] THEN Append(Heard(l, n - 1), fired[n])
    ELSE Heard(l, n - 1)

\* C9: each handleUri(uri) delivers that uri, unchanged and once, to every
\* listener subscribed at that moment and to no other: what a listener has
\* received is exactly the URIs handled while it was subscribed, in order.
C9_PassThrough ==
    /\ Len(audience) = Len(fired)
    /\ \A l \in Listeners : received[l] = Heard(l, Len(fired))

\* A listener that subscribed after the first URI and left before the
\* third received the second alone, next to one that received all three.
C9_Witness ==
    /\ Len(fired) = 3
    /\ fired[1] # fired[2]
    /\ \E l, m \in Listeners :
        /\ received[l] = <<fired[2]>>
        /\ received[m] = fired
====
